---- MODULE Spec2Model ----
(***************************************************************************)
(* Model of iolite_client/entity_factory.py: the factories create_room,    *)
(* create_device and create_heating, the variant resolver _create_device   *)
(* and the property lookups _get_prop_optional and _get_prop.              *)
(*                                                                         *)
(* The functions are pure.  A behaviour is one call: Init draws the        *)
(* function called and its arguments, the function's action computes the   *)
(* outcome (a returned value or a raised exception).                       *)
(*                                                                         *)
(* Model of lambda_function.py: the module globals _client and             *)
(* _discovery_done, get_client and ensure_discovery.  A behaviour of       *)
(* SpecDiscovery is a sequence of ensure_discovery calls in one process.   *)
(***************************************************************************)
EXTENDS Naturals, Sequences, FiniteSets

VARIABLES op, payload, key, default, pc, result

\* The globals of lambda_function.py.  _client is 0 for None, or the number
\* of the Client object it holds (Client objects are numbered as built).
VARIABLES _client, _discovery_done

\* What the process has done so far: calls of ensure_discovery, Client
\* objects built, calls of get_sid() and of discover(), the calls of
\* discover() made by the current call of ensure_discovery, and the clients
\* whose discover() has succeeded.
VARIABLES calls, clients, n_get_sid, n_discover, attempts, discovered

globals == <<_client, _discovery_done>>

history == <<calls, clients, n_get_sid, n_discover, attempts, discovered>>

vars == <<op, payload, key, default, pc, result, _client, _discovery_done, calls, clients, n_get_sid, n_discover, attempts, discovered>>

(***************************************************************************)
(* Python values.  Strings are TLA+ strings.  None is Python's None (also  *)
(* JSON null).  Absent marks a key that the dict does not have; it is not  *)
(* a Python value and no function returns it.                              *)
(***************************************************************************)
None == "<None>"
Absent == "<absent>"

\* Longest property list the inputs are drawn with.
MaxProps == 2

\* payload.get(k): the value, or None when the dict has no key k.
DictGet(p, k) == IF p[k] = Absent THEN None ELSE p[k]

\* k in payload (the properties list is kept beside its presence flag).
HasKey(p, k) == IF k = "properties" THEN p.has_properties ELSE p[k] # Absent

\* Python truthiness of a str-or-None value: `not v`.
Falsy(v) == v = None \/ v = ""

\* str.startswith
startswith(s, prefix) ==
    /\ Len(s) >= Len(prefix)
    /\ SubSeq(s, 1, Len(prefix)) = prefix

(***************************************************************************)
(* Outcomes of a call.                                                     *)
(***************************************************************************)
NoResult == [kind |-> "none"]

Return(v) == [kind |-> "return", value |-> v]

\* raise exc(f"{msg} ... {arg} ... {available}")
Raise(exc, msg, arg, available) ==
    [kind |-> "raise", exc |-> exc, msg |-> msg, arg |-> arg,
     available |-> available]

\* payload[k] on a dict without k
KeyError(k) == Raise("KeyError", "", k, <<>>)

\* UnsupportedDeviceError(message, identifier, payload)
UnsupportedDeviceError(msg, available, identifier, p) ==
    [kind |-> "raise", exc |-> "UnsupportedDeviceError", msg |-> msg,
     arg |-> "", available |-> available, identifier |-> identifier,
     payload |-> p]

(***************************************************************************)
(* Entities (iolite_client.entity): each constructor stores its arguments. *)
(***************************************************************************)
Room(identifier, name) ==
    [type |-> "Room", identifier |-> identifier, name |-> name]

Device(type, identifier, name, place_identifier, manufacturer) ==
    [type |-> type, identifier |-> identifier, name |-> name,
     place_identifier |-> place_identifier, manufacturer |-> manufacturer]

Lamp(identifier, name, place_identifier, manufacturer) ==
    Device("Lamp", identifier, name, place_identifier, manufacturer)

Switch(identifier, name, place_identifier, manufacturer) ==
    Device("Switch", identifier, name, place_identifier, manufacturer)

Blind(identifier, name, place_identifier, manufacturer, blind_level) ==
    [type |-> "Blind", identifier |-> identifier, name |-> name,
     place_identifier |-> place_identifier, manufacturer |-> manufacturer,
     blind_level |-> blind_level]

HumiditySensor(identifier, name, place_identifier, manufacturer, current_env_temp, humidity_level) ==
    [type |-> "HumiditySensor", identifier |-> identifier, name |-> name,
     place_identifier |-> place_identifier, manufacturer |-> manufacturer,
     current_env_temp |-> current_env_temp,
     humidity_level |-> humidity_level]

RadiatorValve(identifier, name, place_identifier, manufacturer, current_env_temp, battery_level, heating_mode, valve_position) ==
    [type |-> "RadiatorValve", identifier |-> identifier, name |-> name,
     place_identifier |-> place_identifier, manufacturer |-> manufacturer,
     current_env_temp |-> current_env_temp,
     battery_level |-> battery_level, heating_mode |-> heating_mode,
     valve_position |-> valve_position]

InFloorValve(identifier, name, place_identifier, manufacturer, current_env_temp, heating_temperature_setting, device_status) ==
    [type |-> "InFloorValve", identifier |-> identifier, name |-> name,
     place_identifier |-> place_identifier, manufacturer |-> manufacturer,
     current_env_temp |-> current_env_temp,
     heating_temperature_setting |-> heating_temperature_setting,
     device_status |-> device_status]

Heating(identifier, name, current_temp, target_temp, window_open) ==
    [type |-> "Heating", identifier |-> identifier, name |-> name,
     current_temp |-> current_temp, target_temp |-> target_temp,
     window_open |-> window_open]

(***************************************************************************)
(* Property lookups.  A property is a dict with a "name" and, possibly, a  *)
(* "value": value = Absent says the dict has no "value" key, value = None  *)
(* says it holds null.                                                     *)
(***************************************************************************)
\* [p.get("name") for p in properties]
available_names(properties) ==
    [i \in 1..Len(properties) |-> properties[i].name]

\* The generator (p for p in properties if p.get("name") == key), advanced
\* from index i: the index of the next property named k, 0 when exhausted.
RECURSIVE scan(_, _, _)
scan(properties, k, i) ==
    IF i > Len(properties) THEN 0
    ELSE IF properties[i].name = k THEN i
    ELSE scan(properties, k, i + 1)

\* A lookup that keeps the last property named k.
first_match_last(properties, k) ==
    LET hits == {i \in 1..Len(properties) : properties[i].name = k}
    IN  IF hits = {} THEN 0
        ELSE CHOOSE i \in hits : \A j \in hits : j <= i

\* next((p for p in properties if p.get("name") == key), None): the index of
\* the first property named key, 0 for None.
first_match(properties, k) == scan(properties, k, 1)

\* any(p.get("name") in names for p in properties)
any_name_in(properties, names) ==
    \E i \in 1..Len(properties) : properties[i].name \in names

\* A lookup that forgets its default.
_get_prop_optional_no_default(properties, k, dflt) ==
    LET match == first_match(properties, k)
    IN  IF match # 0 /\ properties[match].value # Absent
        THEN properties[match].value
        ELSE None

_get_prop_optional(properties, k, dflt) ==
    LET match == first_match(properties, k)
    IN  IF match # 0 /\ properties[match].value # Absent
        THEN properties[match].value
        ELSE dflt

\* A required lookup that fails only when no property is named k.
_get_prop_name_only(properties, k) ==
    IF first_match(properties, k) = 0
    THEN Raise("ValueError", "Failed to find in property set", k,
               available_names(properties))
    ELSE Return(_get_prop_optional(properties, k, None))

\* Returns Return(val) or the raised ValueError.
_get_prop(properties, k) ==
    LET val == _get_prop_optional(properties, k, None)
    IN  IF val = None
        THEN Raise("ValueError", "Failed to find in property set", k,
                   available_names(properties))
        ELSE Return(val)

(***************************************************************************)
(* The factories.                                                          *)
(***************************************************************************)
\* A room factory that reads the class only for its presence.
create_room_any_class(p) ==
    LET entity_class == DictGet(p, "class")
        identifier == DictGet(p, "id")
    IN  IF Falsy(entity_class)
        THEN Raise("ValueError", "Payload missing class", "", <<>>)
        ELSE IF Falsy(identifier)
        THEN Raise("ValueError", "Payload missing id", "", <<>>)
        ELSE IF ~HasKey(p, "placeName") THEN KeyError("placeName")
        ELSE Return(Room(identifier, p["placeName"]))

create_room(p) ==
    LET entity_class == DictGet(p, "class")
        identifier == DictGet(p, "id")
    IN  IF Falsy(entity_class)
        THEN Raise("ValueError", "Payload missing class", "", <<>>)
        ELSE IF Falsy(identifier)
        THEN Raise("ValueError", "Payload missing id", "", <<>>)
        ELSE IF entity_class # "Room"
        THEN Raise("NotImplementedError",
                   "An unsupported entity class was provided when trying to create a room",
                   entity_class, <<>>)
        ELSE IF ~HasKey(p, "placeName") THEN KeyError("placeName")
        ELSE Return(Room(identifier, p["placeName"]))

\* The order of the conditions of the "Heater" branch: the path taken.
heater_rule_radiator_first(model_name, properties) ==
    IF any_name_in(properties, {"batteryLevel", "valvePosition", "heatingMode"})
    THEN "radiator"
    ELSE IF model_name # None /\ startswith(model_name, "38de6001c3ad")
    THEN "model_prefix"
    ELSE IF any_name_in(properties, {"heatingTemperatureSetting"})
    THEN "knx_setpoint"
    ELSE "unrecognized"

heater_rule_setpoint_first(model_name, properties) ==
    IF model_name # None /\ startswith(model_name, "38de6001c3ad")
    THEN "model_prefix"
    ELSE IF any_name_in(properties, {"heatingTemperatureSetting"})
    THEN "knx_setpoint"
    ELSE IF any_name_in(properties, {"batteryLevel", "valvePosition", "heatingMode"})
    THEN "radiator"
    ELSE "unrecognized"

heater_rule_no_fallback(model_name, properties) ==
    IF model_name # None /\ startswith(model_name, "38de6001c3ad")
    THEN "model_prefix"
    ELSE IF any_name_in(properties, {"batteryLevel", "valvePosition", "heatingMode"})
    THEN "radiator"
    ELSE "knx_setpoint"

heater_rule(model_name, properties) ==
    LET has_knx_setpoint ==
            any_name_in(properties, {"heatingTemperatureSetting"})
        has_radiator_props ==
            any_name_in(properties,
                        {"batteryLevel", "valvePosition", "heatingMode"})
    IN  IF model_name # None /\ startswith(model_name, "38de6001c3ad")
        THEN "model_prefix"
        ELSE IF has_radiator_props THEN "radiator"
        ELSE IF has_knx_setpoint THEN "knx_setpoint"
        ELSE "unrecognized"

\* The "Heater" branch of _create_device, after the top-level fields are read.
create_heater(identifier, p, place_identifier, model_name, manufacturer, friendly) ==
    IF ~HasKey(p, "properties") THEN KeyError("properties")
    ELSE
    LET properties == p["properties"]
        current_env_temp ==
            _get_prop_optional(properties, "currentEnvironmentTemperature", None)
        \* the InFloorValve of both the model-prefix and the KNX path
        in_floor_valve ==
            LET heating_temperature_setting ==
                    _get_prop(properties, "heatingTemperatureSetting")
                device_status ==
                    _get_prop_optional(properties, "deviceStatus", "UNKNOWN")
            IN  IF heating_temperature_setting.kind = "raise"
                THEN heating_temperature_setting
                ELSE Return(InFloorValve(identifier, friendly, place_identifier,
                                         manufacturer, current_env_temp,
                                         heating_temperature_setting.value,
                                         device_status))
        rule == heater_rule(model_name, properties)
    IN  IF rule = "model_prefix"
        THEN in_floor_valve
        ELSE IF rule = "radiator"
        THEN LET battery_level ==
                     _get_prop_optional(properties, "batteryLevel", None)
                 heating_mode ==
                     _get_prop_optional(properties, "heatingMode", None)
                 valve_position ==
                     _get_prop_optional(properties, "valvePosition", None)
             IN  Return(RadiatorValve(identifier, friendly, place_identifier,
                                      manufacturer, current_env_temp,
                                      battery_level, heating_mode,
                                      valve_position))
        ELSE IF rule = "knx_setpoint"
        THEN in_floor_valve
        ELSE UnsupportedDeviceError("Heater with unrecognized property set",
                                    available_names(properties), identifier, p)

\* The routing of _create_device on type_name.
create_variant(identifier, type_name, p, place_identifier, model_name, manufacturer, friendly) ==
    IF type_name = "Lamp"
    THEN Return(Lamp(identifier, friendly, place_identifier, manufacturer))
    ELSE IF type_name = "TwoChannelRockerSwitch"
    THEN Return(Switch(identifier, friendly, place_identifier, manufacturer))
    ELSE IF type_name = "Heater"
    THEN create_heater(identifier, p, place_identifier, model_name,
                       manufacturer, friendly)
    ELSE IF type_name = "Blind"
    THEN IF ~HasKey(p, "properties") THEN KeyError("properties")
         ELSE LET blind_level == _get_prop(p["properties"], "blindLevel")
              IN  IF blind_level.kind = "raise" THEN blind_level
                  ELSE Return(Blind(identifier, friendly, place_identifier,
                                    manufacturer, blind_level.value))
    ELSE IF type_name = "HumiditySensor"
    THEN IF ~HasKey(p, "properties") THEN KeyError("properties")
         ELSE LET properties == p["properties"]
                  current_env_temp ==
                      _get_prop_optional(properties,
                                         "currentEnvironmentTemperature", None)
                  humidity_level == _get_prop(properties, "humidityLevel")
              IN  IF humidity_level.kind = "raise" THEN humidity_level
                  ELSE Return(HumiditySensor(identifier, friendly,
                                             place_identifier, manufacturer,
                                             current_env_temp,
                                             humidity_level.value))
    ELSE UnsupportedDeviceError(type_name, <<>>, identifier, p)

\* A resolver that routes on type_name before it reads the required fields.
_create_device_route_first(identifier, type_name, p) ==
    IF type_name \in {"Lamp", "TwoChannelRockerSwitch", "Heater", "Blind",
                      "HumiditySensor"}
    THEN IF ~HasKey(p, "placeIdentifier") THEN KeyError("placeIdentifier")
         ELSE IF ~HasKey(p, "friendlyName") THEN KeyError("friendlyName")
         ELSE create_variant(identifier, type_name, p, p["placeIdentifier"],
                             DictGet(p, "modelName"),
                             DictGet(p, "manufacturer"), p["friendlyName"])
    ELSE UnsupportedDeviceError(type_name, <<>>, identifier, p)

_create_device(identifier, type_name, p) ==
    IF ~HasKey(p, "placeIdentifier") THEN KeyError("placeIdentifier")
    ELSE IF ~HasKey(p, "friendlyName") THEN KeyError("friendlyName")
    ELSE
    LET place_identifier == p["placeIdentifier"]
        model_name == DictGet(p, "modelName")
        manufacturer == DictGet(p, "manufacturer")
        friendly == p["friendlyName"]
    IN  create_variant(identifier, type_name, p, place_identifier, model_name,
                       manufacturer, friendly)

create_device(p) ==
    LET entity_class == DictGet(p, "class")
        identifier == DictGet(p, "id")
    IN  IF Falsy(entity_class)
        THEN Raise("ValueError", "Payload missing class", "", <<>>)
        ELSE IF Falsy(identifier)
        THEN Raise("ValueError", "Payload missing id", "", <<>>)
        ELSE IF entity_class # "Device"
        THEN Raise("NotImplementedError",
                   "An unsupported entity class was provided when trying to create a device",
                   entity_class, <<>>)
        ELSE IF ~HasKey(p, "typeName") THEN KeyError("typeName")
        ELSE _create_device(identifier, p["typeName"], p)

\* The arguments of Heating(...) are evaluated left to right.
create_heating(p) ==
    IF ~HasKey(p, "id") THEN KeyError("id")
    ELSE IF ~HasKey(p, "name") THEN KeyError("name")
    ELSE IF ~HasKey(p, "targetTemperature") THEN KeyError("targetTemperature")
    ELSE Return(Heating(p["id"], p["name"],
                        DictGet(p, "currentTemperature"),
                        p["targetTemperature"],
                        DictGet(p, "windowOpen")))

(***************************************************************************)
(* The inputs the calls are drawn from.                                    *)
(***************************************************************************)
PayloadKeys ==
    {"class", "id", "placeName", "typeName", "placeIdentifier",
     "friendlyName", "modelName", "manufacturer", "name",
     "currentTemperature", "targetTemperature", "windowOpen"}

\* The dict {}.
EmptyPayload ==
    [k \in PayloadKeys \cup {"has_properties", "properties"} |->
        IF k = "has_properties" THEN FALSE
        ELSE IF k = "properties" THEN <<>>
        ELSE Absent]

\* A property's "value": no such key, null, or a value.
PropertyValues == {Absent, None, "v1", "v2"}

\* The property names _create_device reads for a Heater, and one it does not.
HeaterNames ==
    {"currentEnvironmentTemperature", "heatingTemperatureSetting",
     "deviceStatus", "batteryLevel", "heatingMode", "valvePosition",
     "signalStrength"}

\* The property names it reads for a Blind and for a HumiditySensor.
SensorNames ==
    {"blindLevel", "humidityLevel", "currentEnvironmentTemperature"}

\* The names the direct calls of the lookups run over.
LookupNames == {"blindLevel", "deviceStatus", "signalStrength"}

\* All lists of at most MaxProps properties named in names.
PropertyLists(names) ==
    UNION {[1..n -> [name : names, value : PropertyValues]] : n \in 0..MaxProps}

ModelNames ==
    {Absent, "38de6001c3ad", "38de6001c3ad-XYZ", "KNX-38de6001c3ad",
     "38de6001c3a"}

ClassValues == {Absent, "", "Room", "Device", "Zone"}

IdValues == {Absent, "", "id1"}

TypeNames ==
    {"Lamp", "TwoChannelRockerSwitch", "Heater", "Blind", "HumiditySensor",
     "Thermostat"}

WithProperties(p, properties) ==
    [p EXCEPT !["has_properties"] = TRUE, !["properties"] = properties]

RoomPayloads ==
    {[EmptyPayload EXCEPT !["class"] = c, !["id"] = i, !["placeName"] = n] :
        c \in ClassValues, i \in IdValues, n \in {Absent, "Kitchen"}}

HeatingPayloads ==
    {[EmptyPayload EXCEPT !["id"] = i, !["name"] = n,
                          !["currentTemperature"] = c,
                          !["targetTemperature"] = t, !["windowOpen"] = w] :
        i \in {Absent, "id1"}, n \in {Absent, "Kitchen"},
        c \in {Absent, "v1"}, t \in {Absent, "v2"}, w \in {Absent, "v1"}}

\* A well-formed Device payload without its properties.
DevicePayload(t, m) ==
    [EmptyPayload EXCEPT !["class"] = "Device", !["id"] = "id1",
                         !["typeName"] = t, !["placeIdentifier"] = "place1",
                         !["friendlyName"] = "Friendly",
                         !["manufacturer"] = "Acme", !["modelName"] = m]

\* The property lists of the payloads whose top-level keys vary: none, or
\* one property.
StructuralProperties ==
    {<<>>} \cup {<<[name |-> n, value |-> "v1"]>> :
                    n \in {"heatingTemperatureSetting", "blindLevel"}}

\* A Device payload with each top-level key present or not.
StructuralPayload(c, i, t, pl, f, mf, m) ==
    [EmptyPayload EXCEPT !["class"] = c, !["id"] = i, !["typeName"] = t,
                         !["placeIdentifier"] = pl, !["friendlyName"] = f,
                         !["manufacturer"] = mf, !["modelName"] = m]

\* The payloads drawn for create_device: payload is one of them.
IsDevicePayload(p) ==
    \/ \E c \in ClassValues, i \in IdValues, t \in TypeNames \cup {Absent},
          pl \in {Absent, "place1"}, f \in {Absent, "Friendly"},
          mf \in {Absent, "Acme"}, m \in {Absent, "38de6001c3ad-XYZ"} :
          \/ p = StructuralPayload(c, i, t, pl, f, mf, m)
          \/ \E l \in StructuralProperties :
                p = WithProperties(StructuralPayload(c, i, t, pl, f, mf, m), l)
    \/ \E m \in ModelNames, l \in PropertyLists(HeaterNames) :
          p = WithProperties(DevicePayload("Heater", m), l)
    \/ \E t \in {"Blind", "HumiditySensor"}, l \in PropertyLists(SensorNames) :
          p = WithProperties(DevicePayload(t, Absent), l)

\* The properties argument of a direct lookup, held in payload.properties.
IsLookupPayload(p) ==
    \E l \in PropertyLists(LookupNames) : p = WithProperties(EmptyPayload, l)

(***************************************************************************)
(* One call: Init draws the function and its arguments.                    *)
(***************************************************************************)
\* The module as loaded: _client = None, _discovery_done = False.
GlobalsInit ==
    /\ _client = 0
    /\ _discovery_done = FALSE
    /\ calls = 0
    /\ clients = 0
    /\ n_get_sid = 0
    /\ n_discover = 0
    /\ attempts = 0
    /\ discovered = {}

Init ==
    /\ pc = "call"
    /\ result = NoResult
    /\ GlobalsInit
    /\ \/ /\ op = "create_room"
          /\ payload \in RoomPayloads
          /\ key = ""
          /\ default = None
       \/ /\ op = "create_device"
          /\ IsDevicePayload(payload)
          /\ key = ""
          /\ default = None
       \/ /\ op = "create_heating"
          /\ payload \in HeatingPayloads
          /\ key = ""
          /\ default = None
       \/ /\ op = "_get_prop_optional"
          /\ IsLookupPayload(payload)
          /\ key \in LookupNames
          /\ default \in {None, "UNKNOWN"}
       \/ /\ op = "_get_prop"
          /\ IsLookupPayload(payload)
          /\ key \in LookupNames
          /\ default = None

CreateRoom ==
    /\ pc = "call" /\ op = "create_room"
    /\ result' = create_room(payload)
    /\ pc' = "done"
    /\ UNCHANGED <<op, payload, key, default>>
    /\ UNCHANGED <<globals, history>>

CreateDevice ==
    /\ pc = "call" /\ op = "create_device"
    /\ result' = create_device(payload)
    /\ pc' = "done"
    /\ UNCHANGED <<op, payload, key, default>>
    /\ UNCHANGED <<globals, history>>

CreateHeating ==
    /\ pc = "call" /\ op = "create_heating"
    /\ result' = create_heating(payload)
    /\ pc' = "done"
    /\ UNCHANGED <<op, payload, key, default>>
    /\ UNCHANGED <<globals, history>>

GetPropOptional ==
    /\ pc = "call" /\ op = "_get_prop_optional"
    /\ result' = Return(_get_prop_optional(payload["properties"], key, default))
    /\ pc' = "done"
    /\ UNCHANGED <<op, payload, key, default>>
    /\ UNCHANGED <<globals, history>>

GetProp ==
    /\ pc = "call" /\ op = "_get_prop"
    /\ result' = _get_prop(payload["properties"], key)
    /\ pc' = "done"
    /\ UNCHANGED <<op, payload, key, default>>
    /\ UNCHANGED <<globals, history>>

Next ==
    \/ CreateRoom
    \/ CreateDevice
    \/ CreateHeating
    \/ GetPropOptional
    \/ GetProp

Spec == Init /\ [][Next]_vars

(***************************************************************************)
(* lambda_function.py: ensure_discovery, step by step.  pc is "idle"       *)
(* between calls, and otherwise the call the function is about to make:    *)
(*   "try"                get_client()   of line 106                       *)
(*   "try_discover"       .discover()    of line 106                       *)
(*   "except"             get_sid()      of line 110                       *)
(*   "except_get_client"  get_client()   of line 111                       *)
(*   "except_discover"    .discover()    of line 111                       *)
(* result is the outcome of the last finished call.                        *)
(***************************************************************************)
\* Most ensure_discovery calls of one process.
MaxCalls == 3

\* How a call of get_sid() or of discover() ends: it returns, or raises an
\* Exception, or raises a BaseException that `except Exception` lets pass.
CallOutcomes == {"ok", "Exception", "BaseException"}

\* An exception leaves ensure_discovery.
Propagate(exc, from) ==
    /\ pc' = "idle"
    /\ result' = Raise(exc, from, "", <<>>)

\* ensure_discovery returns.
ReturnNone ==
    /\ pc' = "idle"
    /\ result' = Return(None)

\* _client = Client(get_sid(), USERNAME, PASSWORD): on success continue at
\* then; an exception that `caught` holds goes to handler,
\* any other leaves ensure_discovery.
NewClient(then, caught, handler) ==
    \E o \in CallOutcomes :
        /\ n_get_sid' = n_get_sid + 1
        /\ IF o = "ok"
           THEN /\ clients' = clients + 1
                /\ _client' = clients + 1
                /\ pc' = then
                /\ UNCHANGED result
           ELSE /\ UNCHANGED <<clients, _client>>
                /\ IF o \in caught
                   THEN pc' = handler /\ UNCHANGED result
                   ELSE Propagate(o, "get_sid")

\* get_client(force)
get_client(force, then, caught, handler) ==
    /\ IF force \/ _client = 0
       THEN NewClient(then, caught, handler)
       ELSE /\ pc' = then
            /\ UNCHANGED <<_client, clients, n_get_sid, result>>
    /\ UNCHANGED <<_discovery_done, calls, n_discover, attempts, discovered>>
    /\ UNCHANGED <<op, payload, key, default>>

\* _client.discover() and, when it returns, _discovery_done = True and the
\* return of ensure_discovery.
discover(caught, handler) ==
    /\ n_discover' = n_discover + 1
    /\ attempts' = attempts + 1
    /\ \E o \in CallOutcomes :
          IF o = "ok"
          THEN /\ discovered' = discovered \cup {_client}
               /\ _discovery_done' = TRUE
               /\ ReturnNone
          ELSE /\ UNCHANGED <<discovered, _discovery_done>>
               /\ IF o \in caught
                  THEN pc' = handler /\ UNCHANGED result
                  ELSE Propagate(o, "discover")
    /\ UNCHANGED <<_client, calls, clients, n_get_sid>>
    /\ UNCHANGED <<op, payload, key, default>>

\* A discover() that marks the discovery done before it is made.
TryDiscover_done_first ==
    /\ pc = "try_discover"
    /\ n_discover' = n_discover + 1
    /\ attempts' = attempts + 1
    /\ _discovery_done' = TRUE
    /\ \E o \in CallOutcomes :
          IF o = "ok"
          THEN discovered' = discovered \cup {_client} /\ ReturnNone
          ELSE /\ UNCHANGED discovered
               /\ IF o = "Exception"
                  THEN pc' = "except" /\ UNCHANGED result
                  ELSE Propagate(o, "discover")
    /\ UNCHANGED <<_client, calls, clients, n_get_sid>>
    /\ UNCHANGED <<op, payload, key, default>>

\* ensure_discovery is called: lines 102-104.
EnsureDiscovery ==
    /\ op = "ensure_discovery"
    /\ pc = "idle"
    /\ calls < MaxCalls
    /\ calls' = calls + 1
    /\ attempts' = 0
    /\ IF _discovery_done
       THEN ReturnNone
       ELSE pc' = "try" /\ result' = NoResult
    /\ UNCHANGED <<_client, _discovery_done, clients, n_get_sid, n_discover, discovered>>
    /\ UNCHANGED <<op, payload, key, default>>

\* Line 106, inside try: get_client()
TryGetClient ==
    /\ pc = "try"
    /\ get_client(FALSE, "try_discover", {"Exception"}, "except")

\* Line 106, inside try: .discover(), and line 107
TryDiscover ==
    /\ pc = "try_discover"
    /\ discover({"Exception"}, "except")

\* Line 110, inside except: _client = Client(get_sid(), USERNAME, PASSWORD)
ExceptNewClient ==
    /\ pc = "except"
    /\ NewClient("except_get_client", {}, "except")
    /\ UNCHANGED <<_discovery_done, calls, n_discover, attempts, discovered>>
    /\ UNCHANGED <<op, payload, key, default>>

\* Line 111, inside except: get_client()
ExceptGetClient ==
    /\ pc = "except_get_client"
    /\ get_client(FALSE, "except_discover", {}, "except")

\* Line 111, inside except: .discover(), and line 112
ExceptDiscover ==
    /\ pc = "except_discover"
    /\ discover({}, "except")

DiscoveryInit ==
    /\ op = "ensure_discovery"
    /\ payload = EmptyPayload
    /\ key = ""
    /\ default = None
    /\ pc = "idle"
    /\ result = NoResult
    /\ GlobalsInit

DiscoveryNext ==
    \/ EnsureDiscovery
    \/ TryGetClient
    \/ TryDiscover
    \/ ExceptNewClient
    \/ ExceptGetClient
    \/ ExceptDiscover

SpecDiscovery == DiscoveryInit /\ [][DiscoveryNext]_vars

(***************************************************************************)
(* Vocabulary of the properties below, written without the operators of    *)
(* the factory.                                                            *)
(***************************************************************************)
Called(f) == pc = "done" /\ op = f

Returns(type) == result.kind = "return" /\ result.value.type = type

Raises(exc) == result.kind = "raise" /\ result.exc = exc

\* A Device payload whose required top-level fields are all there.
WellFormedDevice(p, t) ==
    /\ p["class"] = "Device"
    /\ p["id"] \notin {Absent, ""}
    /\ p["typeName"] = t
    /\ p["placeIdentifier"] # Absent
    /\ p["friendlyName"] # Absent
    /\ p["has_properties"]

\* The model names of ModelNames that start with "38de6001c3ad".
PrefixModels == {"38de6001c3ad", "38de6001c3ad-XYZ"}

Contains(l, n) == \E i \in 1..Len(l) : l[i].name = n

ContainsAny(l, names) == \E n \in names : Contains(l, n)

\* The value of the first property of l named n (l contains one).
FirstValue(l, n) ==
    LET i == CHOOSE i \in 1..Len(l) :
                 /\ l[i].name = n
                 /\ \A j \in 1..(i - 1) : l[j].name # n
    IN  l[i].value

\* The first property named n has a value, and it is not null.
CarriesValue(l, n) == Contains(l, n) /\ FirstValue(l, n) \notin {Absent, None}

\* What an optional lookup of n in l is to give.
FirstOr(l, n, dflt) ==
    IF Contains(l, n) /\ FirstValue(l, n) # Absent THEN FirstValue(l, n)
    ELSE dflt

RadiatorNames == {"batteryLevel", "valvePosition", "heatingMode"}

\* l without its properties named n.
Without(l, n) == SelectSeq(l, LAMBDA e : e.name # n)

\* The raised ValueError is the one of the required lookup of n in l.
RaisesNotFound(l, n) ==
    /\ Raises("ValueError")
    /\ result.msg = "Failed to find in property set"
    /\ result.arg = n
    /\ Len(result.available) = Len(l)
    /\ \A i \in 1..Len(l) : result.available[i] = l[i].name

(***************************************************************************)
(* C1 as stated: a Heater payload whose model name starts with             *)
(* "38de6001c3ad" and whose properties contain heatingTemperatureSetting   *)
(* always yields an InFloorValve.                                          *)
(***************************************************************************)
C1_PrefixWithSetpointNamed ==
    (/\ Called("create_device")
     /\ WellFormedDevice(payload, "Heater")
     /\ payload["modelName"] \in PrefixModels
     /\ Contains(payload["properties"], "heatingTemperatureSetting"))
    => Returns("InFloorValve")

(***************************************************************************)
(* C1 amended: a Heater payload whose model name starts with               *)
(* "38de6001c3ad" and whose first heatingTemperatureSetting property       *)
(* carries a non-null value yields an InFloorValve with that setpoint,     *)
(* whatever other properties are present: the model-prefix rule is         *)
(* evaluated before the property-presence heuristics.                      *)
(***************************************************************************)
C1_PrefixBeforeHeuristics ==
    (/\ Called("create_device")
     /\ WellFormedDevice(payload, "Heater")
     /\ payload["modelName"] \in PrefixModels
     /\ CarriesValue(payload["properties"], "heatingTemperatureSetting"))
    => /\ Returns("InFloorValve")
       /\ result.value.heating_temperature_setting =
              FirstValue(payload["properties"], "heatingTemperatureSetting")

C1_Witness ==
    /\ Called("create_device")
    /\ WellFormedDevice(payload, "Heater")
    /\ payload["modelName"] = "38de6001c3ad-XYZ"
    /\ CarriesValue(payload["properties"], "heatingTemperatureSetting")
    /\ Contains(payload["properties"], "batteryLevel")
    /\ Returns("InFloorValve")

(***************************************************************************)
(* C2: a Heater payload without the model prefix whose properties contain  *)
(* batteryLevel, valvePosition or heatingMode yields a RadiatorValve, also *)
(* when heatingTemperatureSetting is present, and the result is the one of *)
(* the same payload without its heatingTemperatureSetting properties.      *)
(***************************************************************************)
C2_RadiatorBeforeSetpoint ==
    (/\ Called("create_device")
     /\ WellFormedDevice(payload, "Heater")
     /\ payload["modelName"] \notin PrefixModels
     /\ ContainsAny(payload["properties"], RadiatorNames))
    => /\ Returns("RadiatorValve")
       /\ result =
              create_device(WithProperties(payload,
                  Without(payload["properties"], "heatingTemperatureSetting")))

C2_Witness ==
    /\ Called("create_device")
    /\ WellFormedDevice(payload, "Heater")
    /\ payload["modelName"] = "KNX-38de6001c3ad"
    /\ Contains(payload["properties"], "valvePosition")
    /\ CarriesValue(payload["properties"], "heatingTemperatureSetting")
    /\ Returns("RadiatorValve")

(***************************************************************************)
(* C3 as stated: a Heater payload whose properties contain none of         *)
(* batteryLevel, valvePosition, heatingMode, heatingTemperatureSetting     *)
(* fails with UnsupportedDeviceError, for every model name.                *)
(***************************************************************************)
C3_UnrecognizedForEveryModel ==
    (/\ Called("create_device")
     /\ WellFormedDevice(payload, "Heater")
     /\ ~ContainsAny(payload["properties"],
                     RadiatorNames \cup {"heatingTemperatureSetting"}))
    => Raises("UnsupportedDeviceError")

(***************************************************************************)
(* C3 amended: such a payload fails with UnsupportedDeviceError, carrying  *)
(* the names of its properties, when its model name is absent or does not  *)
(* start with "38de6001c3ad"; when it does, the payload fails with the     *)
(* ValueError of the required lookup of heatingTemperatureSetting.         *)
(***************************************************************************)
C3_UnrecognizedWithoutPrefix ==
    (/\ Called("create_device")
     /\ WellFormedDevice(payload, "Heater")
     /\ ~ContainsAny(payload["properties"],
                     RadiatorNames \cup {"heatingTemperatureSetting"}))
    => IF payload["modelName"] \in PrefixModels
       THEN RaisesNotFound(payload["properties"], "heatingTemperatureSetting")
       ELSE /\ Raises("UnsupportedDeviceError")
            /\ result.msg = "Heater with unrecognized property set"
            /\ Len(result.available) = Len(payload["properties"])
            /\ \A i \in 1..Len(payload["properties"]) :
                  result.available[i] = payload["properties"][i].name

C3_Witness ==
    /\ Called("create_device")
    /\ WellFormedDevice(payload, "Heater")
    /\ payload["modelName"] = "38de6001c3a"
    /\ Len(payload["properties"]) = 2
    /\ ~ContainsAny(payload["properties"],
                    RadiatorNames \cup {"heatingTemperatureSetting"})
    /\ Raises("UnsupportedDeviceError")
    /\ result.available = <<"signalStrength", "deviceStatus">>

(***************************************************************************)
(* C4 as stated: a payload with class "Room", a non-empty id and a         *)
(* placeName yields the Room of that id and placeName, and with any other  *)
(* string as its class it fails with NotImplementedError.                  *)
(***************************************************************************)
C4_AnyOtherClassUnsupported ==
    (/\ Called("create_room")
     /\ payload["class"] # Absent
     /\ payload["id"] \notin {Absent, ""}
     /\ payload["placeName"] # Absent)
    => IF payload["class"] = "Room"
       THEN result = Return(Room(payload["id"], payload["placeName"]))
       ELSE Raises("NotImplementedError")

(***************************************************************************)
(* C4 amended: ... and with any other non-empty string as its class it     *)
(* fails with NotImplementedError, naming that class; with the empty       *)
(* string it fails with the ValueError of a missing class.                 *)
(***************************************************************************)
C4_OtherNonEmptyClassUnsupported ==
    (/\ Called("create_room")
     /\ payload["class"] # Absent
     /\ payload["id"] \notin {Absent, ""}
     /\ payload["placeName"] # Absent)
    => IF payload["class"] = "Room"
       THEN /\ result.kind = "return"
            /\ result.value.type = "Room"
            /\ result.value.identifier = payload["id"]
            /\ result.value.name = payload["placeName"]
       ELSE IF payload["class"] = ""
       THEN Raises("ValueError") /\ result.msg = "Payload missing class"
       ELSE Raises("NotImplementedError") /\ result.arg = payload["class"]

C4_Witness ==
    /\ Called("create_room")
    /\ payload["class"] = "Zone"
    /\ payload["id"] = "id1"
    /\ payload["placeName"] = "Kitchen"
    /\ Raises("NotImplementedError")

(***************************************************************************)
(* The cause an exception reports, read off what it carries.               *)
(***************************************************************************)
Cause(r) ==
    IF r.exc = "KeyError" THEN "missing_field"
    ELSE IF r.exc = "ValueError"
              /\ r.msg \in {"Payload missing class", "Payload missing id"}
    THEN "missing_field"
    ELSE IF r.exc = "NotImplementedError" THEN "unsupported_class"
    ELSE IF r.exc = "ValueError" /\ r.msg = "Failed to find in property set"
    THEN "property_not_found"
    ELSE "unsupported_device"

\* One failing call for each of the four causes.
ReferenceFailures ==
    {create_device(EmptyPayload),
     create_room([EmptyPayload EXCEPT !["class"] = "Zone", !["id"] = "id1"]),
     create_device(WithProperties(DevicePayload("Blind", Absent), <<>>)),
     create_device(WithProperties(DevicePayload("Thermostat", Absent), <<>>))}

(***************************************************************************)
(* C5: no two different causes of failure are reported by the same error   *)
(* kind (exception class): whenever create_room, create_device or          *)
(* create_heating fails, its exception class differs from the class of     *)
(* every failure that has another cause.                                   *)
(***************************************************************************)
C5_CausesHaveDistinctKinds ==
    (/\ pc = "done"
     /\ op \in {"create_room", "create_device", "create_heating"}
     /\ result.kind = "raise")
    => \A r \in ReferenceFailures :
          (r.kind = "raise" /\ Cause(r) # Cause(result)) => r.exc # result.exc

\* What a caller sees of an outcome: the entity, or the exception and its
\* message, without the payload it quotes.
Outcome(r) ==
    IF r.kind = "return" THEN [kind |-> "return", exc |-> "", msg |-> "",
                               entity |-> r.value]
    ELSE [kind |-> "raise", exc |-> r.exc, msg |-> r.msg, entity |-> <<>>]

(***************************************************************************)
(* C6: a Device payload without a properties key is classified as the same *)
(* payload with properties set to the empty list, for every typeName.      *)
(***************************************************************************)
C6_AbsentPropertiesAsEmpty ==
    (/\ Called("create_device")
     /\ ~payload["has_properties"])
    => LET r == create_device(WithProperties(payload, <<>>))
       IN  /\ r.kind = result.kind
           /\ r.kind = "raise" => (r.exc = result.exc /\ r.msg = result.msg)
           /\ r.kind = "return" => r.value = result.value

(***************************************************************************)
(* C7 as stated: the required lookup fails exactly when no property named  *)
(* key is in the list, and otherwise returns the value of the optional     *)
(* lookup.                                                                 *)
(***************************************************************************)
C7_FailsExactlyWhenNotNamed ==
    Called("_get_prop")
    => IF Contains(payload["properties"], key)
       THEN result = Return(FirstOr(payload["properties"], key, None))
       ELSE RaisesNotFound(payload["properties"], key)

(***************************************************************************)
(* C7 amended: the required lookup fails with its ValueError, carrying the *)
(* names of all properties in list order, exactly when no property named   *)
(* key is in the list or the first one has no value or a null value;       *)
(* otherwise it returns the value the optional lookup returns.  A Blind    *)
(* payload whose properties give no such blindLevel fails with that error, *)
(* and one whose first blindLevel carries a value yields a Blind of that   *)
(* level.                                                                  *)
(***************************************************************************)
C7_FailsExactlyWhenNoValue ==
    /\ Called("_get_prop")
       => IF CarriesValue(payload["properties"], key)
          THEN result = Return(FirstOr(payload["properties"], key, None))
          ELSE RaisesNotFound(payload["properties"], key)
    /\ (Called("create_device") /\ WellFormedDevice(payload, "Blind"))
       => IF CarriesValue(payload["properties"], "blindLevel")
          THEN /\ Returns("Blind")
               /\ result.value.blind_level =
                      FirstValue(payload["properties"], "blindLevel")
          ELSE RaisesNotFound(payload["properties"], "blindLevel")

C7_Witness ==
    /\ Called("_get_prop")
    /\ Contains(payload["properties"], key)
    /\ ~CarriesValue(payload["properties"], key)
    /\ Len(payload["properties"]) = 2
    /\ payload["properties"][1].name # payload["properties"][2].name
    /\ RaisesNotFound(payload["properties"], key)

(***************************************************************************)
(* C8 as stated: a Heater payload without the model prefix whose           *)
(* properties contain heatingTemperatureSetting and none of batteryLevel,  *)
(* valvePosition, heatingMode yields an InFloorValve.                      *)
(***************************************************************************)
C8_SetpointNamedYieldsValve ==
    (/\ Called("create_device")
     /\ WellFormedDevice(payload, "Heater")
     /\ payload["modelName"] \notin PrefixModels
     /\ Contains(payload["properties"], "heatingTemperatureSetting")
     /\ ~ContainsAny(payload["properties"], RadiatorNames))
    => Returns("InFloorValve")

(***************************************************************************)
(* C8 amended: a Heater payload without the model prefix whose first       *)
(* heatingTemperatureSetting property carries a non-null value and whose   *)
(* properties contain none of batteryLevel, valvePosition, heatingMode     *)
(* yields an InFloorValve whose setpoint is that value and whose device    *)
(* status is "UNKNOWN" when no deviceStatus property is present.           *)
(***************************************************************************)
C8_SetpointValueYieldsValve ==
    (/\ Called("create_device")
     /\ WellFormedDevice(payload, "Heater")
     /\ payload["modelName"] \notin PrefixModels
     /\ CarriesValue(payload["properties"], "heatingTemperatureSetting")
     /\ ~ContainsAny(payload["properties"], RadiatorNames))
    => /\ Returns("InFloorValve")
       /\ result.value.heating_temperature_setting =
              FirstValue(payload["properties"], "heatingTemperatureSetting")
       /\ ~Contains(payload["properties"], "deviceStatus")
              => result.value.device_status = "UNKNOWN"

C8_Witness ==
    /\ Called("create_device")
    /\ WellFormedDevice(payload, "Heater")
    /\ payload["modelName"] = Absent
    /\ payload["properties"] =
           <<[name |-> "heatingTemperatureSetting", value |-> "v2"]>>
    /\ Returns("InFloorValve")
    /\ result.value.heating_temperature_setting = "v2"
    /\ result.value.device_status = "UNKNOWN"

(***************************************************************************)
(* C9: a payload with class "Device" and a non-empty id that lacks         *)
(* placeIdentifier or friendlyName fails with the KeyError of a missing    *)
(* field, for every typeName: the fields are read before the routing.      *)
(***************************************************************************)
C9_RequiredFieldsBeforeRouting ==
    (/\ Called("create_device")
     /\ payload["class"] = "Device"
     /\ payload["id"] \notin {Absent, ""}
     /\ (payload["placeIdentifier"] = Absent \/ payload["friendlyName"] = Absent))
    => /\ Raises("KeyError")
       /\ result.arg =
              IF payload["typeName"] = Absent THEN "typeName"
              ELSE IF payload["placeIdentifier"] = Absent THEN "placeIdentifier"
              ELSE "friendlyName"

C9_Witness ==
    /\ Called("create_device")
    /\ payload["class"] = "Device"
    /\ payload["id"] = "id1"
    /\ payload["typeName"] = "Thermostat"
    /\ payload["placeIdentifier"] # Absent
    /\ payload["friendlyName"] = Absent
    /\ Raises("KeyError")

(***************************************************************************)
(* C10: the optional lookup returns the value of the first property named  *)
(* key, or the default when that property has no value or no property is   *)
(* named key; the properties after the first one named key do not change   *)
(* the result, and every field of a constructed device is the value of the *)
(* first property of its name.                                             *)
(***************************************************************************)
C10_FirstMatchWins ==
    /\ Called("_get_prop_optional")
       => /\ result = Return(FirstOr(payload["properties"], key, default))
          /\ \A n \in 1..Len(payload["properties"]) :
                payload["properties"][n].name = key
                => result = Return(_get_prop_optional(
                                SubSeq(payload["properties"], 1, n), key, default))
    /\ (Called("create_device") /\ result.kind = "return"
        /\ payload["has_properties"])
       => LET l == payload["properties"]
              v == result.value
          IN  /\ v.type = "RadiatorValve"
                 => /\ v.battery_level = FirstOr(l, "batteryLevel", None)
                    /\ v.heating_mode = FirstOr(l, "heatingMode", None)
                    /\ v.valve_position = FirstOr(l, "valvePosition", None)
              /\ v.type = "InFloorValve"
                 => /\ v.heating_temperature_setting =
                           FirstOr(l, "heatingTemperatureSetting", None)
                    /\ v.device_status = FirstOr(l, "deviceStatus", "UNKNOWN")
              /\ v.type = "Blind"
                 => v.blind_level = FirstOr(l, "blindLevel", None)
              /\ v.type = "HumiditySensor"
                 => v.humidity_level = FirstOr(l, "humidityLevel", None)
              /\ v.type \in {"RadiatorValve", "InFloorValve", "HumiditySensor"}
                 => v.current_env_temp =
                       FirstOr(l, "currentEnvironmentTemperature", None)

C10_Witness ==
    /\ Called("_get_prop_optional")
    /\ Len(payload["properties"]) = 2
    /\ payload["properties"][1].name = key
    /\ payload["properties"][2].name = key
    /\ payload["properties"][1].value = Absent
    /\ payload["properties"][2].value = "v2"
    /\ default = "UNKNOWN"
    /\ result = Return("UNKNOWN")

\* The parts of C11.
C11_ReturnedMeansDiscovered ==
    (pc = "idle" /\ result.kind = "return")
    => (_discovery_done /\ _client # 0 /\ _client \in discovered)

C11_AtMostTwoAttempts == attempts <= 2

C11_RaisedMeansNotDone ==
    (pc = "idle" /\ result.kind = "raise") => ~_discovery_done

C11_SecondFailurePropagates ==
    (pc = "except_discover" /\ discovered' = discovered)
    => (pc' = "idle" /\ result'.kind = "raise" /\ ~_discovery_done')

C11_DoneIsFinal ==
    _discovery_done
    => /\ _discovery_done'
       /\ n_discover' = n_discover
       /\ n_get_sid' = n_get_sid
       /\ _client' = _client

(***************************************************************************)
(* C11, over any sequence of ensure_discovery calls of one process:        *)
(*  - a call that has returned normally leaves _discovery_done set and a   *)
(*    cached client whose discover() has succeeded;                        *)
(*  - one call invokes discover() at most twice;                           *)
(*  - a call that ends with an exception leaves _discovery_done false, and *)
(*    a failure of the second discover() ends the call with its exception; *)
(*  - once _discovery_done is true it stays true, and no step invokes      *)
(*    discover() or get_sid() or replaces the cached client.               *)
(***************************************************************************)
C11_EnsureDiscovery ==
    /\ [](/\ C11_ReturnedMeansDiscovered
          /\ C11_AtMostTwoAttempts
          /\ C11_RaisedMeansNotDone)
    /\ [][C11_SecondFailurePropagates /\ C11_DoneIsFinal]_vars

\* A second call returns after its own second discover(), made on the client
\* built in its except branch, an earlier call having failed twice.
C11_Witness ==
    /\ op = "ensure_discovery"
    /\ calls = 2
    /\ pc = "idle"
    /\ result.kind = "return"
    /\ attempts = 2
    /\ n_discover = 4
    /\ _discovery_done
    /\ discovered = {_client}
    /\ _client = clients

====
